---------------------------- MODULE Spec2Model ----------------------------
(***************************************************************************)
(* Model of tools/extract_id_blocks_from_json.py: the literal search       *)
(* find_all_positions, the lexical brace matcher extract_json_object and   *)
(* the driving loop of main.                                               *)
(*                                                                         *)
(* Documents are sequences of one-character strings.  Offsets are 0-based  *)
(* as in the Python source; At and Slice translate to TLA+'s 1-based       *)
(* sequences.                                                              *)
(*                                                                         *)
(* Model of tools/analyze_candidates_by_precinct.py                         *)
(* (analyze_election_results) and of the cached mapping functions of       *)
(* tools/create_district_mapping.py and tools/create_precinct_mapping.py.  *)
(*                                                                         *)
(* The specifications share the variables:                                 *)
(*   SpecExtract  one call extract_json_object(content, start_pos)         *)
(*   SpecFind     one call find_all_positions(content, target_id)          *)
(*   Spec         one run of main on a file                                *)
(*   SpecAnalyze  one call of analyze_election_results                     *)
(*   SpecMapping  calls of create_district_mapping and                     *)
(*                create_precinct_mapping between changes of the files     *)
(***************************************************************************)
EXTENDS Integers, Sequences, FiniteSets, TLC

VARIABLES
    content,        \* the document text (main: file.read())
    target_id,      \* args.id
    start_pos,      \* argument of extract_json_object (SpecExtract)
    ret,            \* outcome of the call under study (SpecExtract)
    file_state,     \* "ok" | "missing" | "unreadable": what open()/read() will do
    pc,             \* position in the run
    positions,      \* main: positions
    idx,            \* main: number of elements of positions already iterated
    results,        \* main: results
    found_objects,  \* main: found_objects
    exc,            \* main: the exception in flight, "" when none
    stdout,         \* the values printed so far
    data,           \* analyze_election_results: the parsed file
    candidates,     \* analyze_election_results: candidates
    precincts,      \* analyze_election_results: precincts
    candidate_totals, \* analyze_election_results: candidate_totals
    fs,             \* mapping: the files on disk, by absolute path
    clock,          \* mapping: the time of the last change of a file
    cache_store,    \* mapping: the entries of the disk cache, by key
    cache_open,     \* mapping: the Cache of the last call is not closed
    map_fn,         \* mapping: the function called, "district" | "precinct"
    json_file_path, \* mapping: json_file_path
    cache_key,      \* mapping: cache_key
    mapping,        \* mapping: the value the last call returned
    exit_path       \* mapping: the return statement the last call left by

analyzeVars == <<data, candidates, precincts, candidate_totals>>

mappingVars == <<fs, clock, cache_store, cache_open, map_fn, json_file_path,
                 cache_key, mapping, exit_path>>

vars == <<content, target_id, start_pos, ret, file_state, pc, positions, idx,
          results, found_objects, exc, stdout, analyzeVars, mappingVars>>

\* the values of the variables a specification does not use
AnalyzeUnused ==
    /\ data = <<>>
    /\ candidates = <<>>
    /\ precincts = <<>>
    /\ candidate_totals = <<>>

MappingUnused ==
    /\ fs = <<>>
    /\ clock = 0
    /\ cache_store = <<>>
    /\ cache_open = FALSE
    /\ map_fn = ""
    /\ json_file_path = <<>>
    /\ cache_key = <<>>
    /\ mapping = <<>>
    /\ exit_path = ""

-----------------------------------------------------------------------------
(* Bounds of the model *)

\* longest document of SpecExtract, in characters
MaxLen == 5

\* longest document of SpecFind and Spec, in tokens
MaxTokens == 5

\* most entries of the data list of SpecAnalyze
MaxEntries == 2

\* most precinctResults of one entry of the data list
MaxPrecinctResults == 2

-----------------------------------------------------------------------------
(* Python string primitives *)

Min(a, b) == IF a < b THEN a ELSE b

Max(a, b) == IF a > b THEN a ELSE b

\* s[i] for 0 <= i < len(s)
At(s, i) == s[i + 1]

\* a slice bound as Python normalises it: negative counts from the end,
\* then clamped to 0..len
SliceBound(i, n) == IF i < 0 THEN Max(i + n, 0) ELSE Min(i, n)

\* s[a:b]
Slice(s, a, b) ==
    LET lo == SliceBound(a, Len(s))
        hi == SliceBound(b, Len(s))
    IN  IF hi <= lo THEN <<>> ELSE SubSeq(s, lo + 1, hi)

\* whether sub occurs in s at offset i
OccursAt(s, sub, i) ==
    /\ i >= 0
    /\ i + Len(sub) <= Len(s)
    /\ \A k \in 1..Len(sub) : s[i + k] = sub[k]

\* s.find(sub, start) for start >= 0: the lowest offset >= start at which
\* sub occurs, -1 when there is none
Find(s, sub, start) ==
    LET hits == {i \in start..(Len(s) - Len(sub)) : OccursAt(s, sub, i)}
    IN  IF hits = {} THEN -1
        ELSE CHOOSE i \in hits : \A j \in hits : i <= j

\* one decimal digit as a character
Digit(d) == <<"0", "1", "2", "3", "4", "5", "6", "7", "8", "9">>[d + 1]

\* str(n) for an int: decimal digits, a leading "-" when negative
RECURSIVE StrNat(_)
StrNat(n) == IF n < 10 THEN <<Digit(n)>>
             ELSE Append(StrNat(n \div 10), Digit(n % 10))

Str(n) == IF n < 0 THEN <<"-">> \o StrNat(-n) ELSE StrNat(n)

-----------------------------------------------------------------------------
(* extract_json_object *)

\* lines 23-27: walk down from start_pos to the nearest "{"; -1 when the
\* loop runs off the front of the document
RECURSIVE BackwardScan(_, _)
BackwardScan(doc, object_start) ==
    IF object_start >= 0
    THEN IF At(doc, object_start) = "{"
         THEN object_start
         ELSE BackwardScan(doc, object_start - 1)
    ELSE object_start

\* lines 33-38: the loop tests object_end < len(content), then increments
\* object_end and only then reads content[object_end]; the read raises
\* IndexError when object_end has become len(content)
RECURSIVE ForwardScan(_, _, _)
ForwardScan(doc, object_end, bracket_count) ==
    IF object_end < Len(doc) /\ bracket_count > 0
    THEN LET e == object_end + 1
         IN  IF e >= Len(doc)
             THEN [raised |-> TRUE, object_end |-> e,
                   bracket_count |-> bracket_count]
             ELSE ForwardScan(doc, e,
                      IF At(doc, e) = "{" THEN bracket_count + 1
                      ELSE IF At(doc, e) = "}" THEN bracket_count - 1
                      ELSE bracket_count)
    ELSE [raised |-> FALSE, object_end |-> object_end,
          bracket_count |-> bracket_count]

\* line 43: return None, -1, -1
NotFound == [kind |-> "return", none |-> TRUE, obj |-> <<>>,
             start |-> -1, end |-> -1, index |-> -1]

\* an IndexError raised by reading content[i]
IndexError(i) == [kind |-> "IndexError", none |-> TRUE, obj |-> <<>>,
                  start |-> -1, end |-> -1, index |-> i]

\* lines 17-43, for 0 <= start_pos.  kind is "return" with the returned
\* triple (none says that the first component is None), or "IndexError"
\* with the index whose read raised.
extract_json_object(doc, pos) ==
    IF pos >= Len(doc) THEN IndexError(pos)
    ELSE
    LET object_start == BackwardScan(doc, pos)
        fwd == ForwardScan(doc, pos, 1)
    IN  IF fwd.raised THEN IndexError(fwd.object_end)
        ELSE IF fwd.bracket_count = 0
        THEN [kind |-> "return", none |-> FALSE,
              obj |-> Slice(doc, object_start, fwd.object_end + 1),
              start |-> object_start, end |-> fwd.object_end, index |-> -1]
        ELSE NotFound

-----------------------------------------------------------------------------
(* find_all_positions *)

\* line 8: search_str = f'"id": "{target_id}"'
SearchStr(id) == <<"\"", "i", "d", "\"", ":", " ", "\"">> \o id \o <<"\"">>

\* a variant of FindLoop: an if in place of the while
FindLoop_StopAfterFirst(doc, search_str, pos, acc) ==
    IF pos # -1 THEN Append(acc, pos) ELSE acc

\* a variant of FindLoop: the search resumes after the whole match
RECURSIVE FindLoop_SkipMatch(_, _, _, _)
FindLoop_SkipMatch(doc, search_str, pos, acc) ==
    IF pos # -1
    THEN FindLoop_SkipMatch(doc, search_str,
                            Find(doc, search_str, pos + Len(search_str)),
                            Append(acc, pos))
    ELSE acc

\* a variant of FindLoop: each match is put in front of the earlier ones
RECURSIVE FindLoop_Prepend(_, _, _, _)
FindLoop_Prepend(doc, search_str, pos, acc) ==
    IF pos # -1
    THEN FindLoop_Prepend(doc, search_str, Find(doc, search_str, pos + 1),
                          <<pos>> \o acc)
    ELSE acc

\* lines 11-13: the while loop, entered with the first find's result
RECURSIVE FindLoop(_, _, _, _)
FindLoop(doc, search_str, pos, acc) ==
    IF pos # -1
    THEN FindLoop(doc, search_str, Find(doc, search_str, pos + 1),
                  Append(acc, pos))
    ELSE acc

\* lines 5-15
find_all_positions(doc, id) ==
    FindLoop(doc, SearchStr(id), Find(doc, SearchStr(id), 0), <<>>)

-----------------------------------------------------------------------------
(* json.loads, on the JSON subset the documents of the model are written   *)
(* in: objects, strings without escapes, unsigned integers, blanks.        *)
(* A value is [t |-> "obj", v |-> <<key, value>> pairs in insertion order],*)
(* [t |-> "str", v |-> characters] or [t |-> "num", v |-> digits].         *)

IsDigit(c) == c \in {"0", "1", "2", "3", "4", "5", "6", "7", "8", "9"}

ParseFail == [ok |-> FALSE, val |-> [t |-> "none", v |-> <<>>], next |-> -1]

ParseOk(value, n) == [ok |-> TRUE, val |-> value, next |-> n]

\* the offset of the first non-blank character at or after i
RECURSIVE SkipWs(_, _)
SkipWs(s, i) ==
    IF i < Len(s) /\ At(s, i) = " " THEN SkipWs(s, i + 1) ELSE i

\* the offset of the first character at or after i that is not a digit
RECURSIVE SkipDigits(_, _)
SkipDigits(s, i) ==
    IF i < Len(s) /\ IsDigit(At(s, i)) THEN SkipDigits(s, i + 1) ELSE i

\* a string whose opening quote is at i: it ends at the next quote
ParseString(s, i) ==
    LET close == Find(s, <<"\"">>, i + 1)
    IN  IF close = -1 THEN ParseFail
        ELSE ParseOk([t |-> "str", v |-> Slice(s, i + 1, close)], close + 1)

\* an integer whose first digit is at i: "0" alone, or a run of digits
ParseNumber(s, i) ==
    LET stop == IF At(s, i) = "0" THEN i + 1 ELSE SkipDigits(s, i)
    IN  ParseOk([t |-> "num", v |-> Slice(s, i, stop)], stop)

\* dict[key] = value: a repeated key keeps its place and takes the new value
DictSet(pairs, key, value) ==
    IF \E k \in 1..Len(pairs) : pairs[k][1] = key
    THEN [k \in 1..Len(pairs) |->
             IF pairs[k][1] = key THEN <<key, value>> ELSE pairs[k]]
    ELSE Append(pairs, <<key, value>>)

RECURSIVE ParseValue(_, _)
RECURSIVE ParseMembers(_, _, _)

\* an object whose "{" is at i
ParseObject(s, i) ==
    LET j == SkipWs(s, i + 1)
    IN  IF j >= Len(s) THEN ParseFail
        ELSE IF At(s, j) = "}" THEN ParseOk([t |-> "obj", v |-> <<>>], j + 1)
        ELSE ParseMembers(s, j, <<>>)

\* the members of an object from the key expected at i, to its "}"
ParseMembers(s, i, acc) ==
    IF i >= Len(s) \/ At(s, i) # "\"" THEN ParseFail
    ELSE
    LET key == ParseString(s, i)
        colon == SkipWs(s, key.next)
    IN  IF ~key.ok \/ colon >= Len(s) \/ At(s, colon) # ":" THEN ParseFail
        ELSE
        LET value == ParseValue(s, SkipWs(s, colon + 1))
            sep == SkipWs(s, value.next)
            dict == DictSet(acc, key.val.v, value.val)
        IN  IF ~value.ok \/ sep >= Len(s) THEN ParseFail
            ELSE IF At(s, sep) = "}"
                 THEN ParseOk([t |-> "obj", v |-> dict], sep + 1)
            ELSE IF At(s, sep) = ","
                 THEN ParseMembers(s, SkipWs(s, sep + 1), dict)
            ELSE ParseFail

ParseValue(s, i) ==
    IF i >= Len(s) THEN ParseFail
    ELSE IF At(s, i) = "{" THEN ParseObject(s, i)
    ELSE IF At(s, i) = "\"" THEN ParseString(s, i)
    ELSE IF IsDigit(At(s, i)) THEN ParseNumber(s, i)
    ELSE ParseFail

\* line 77: ok is FALSE where json.loads raises JSONDecodeError (no value,
\* or data after the value)
json_loads(s) ==
    LET r == ParseValue(s, SkipWs(s, 0))
    IN  IF r.ok /\ SkipWs(s, r.next) = Len(s) THEN r ELSE ParseFail

-----------------------------------------------------------------------------
(* The documents and arguments the specifications start from *)

RECURSIVE Flatten(_)
Flatten(parts) ==
    IF parts = <<>> THEN <<>> ELSE Head(parts) \o Flatten(Tail(parts))

\* every concatenation of at most n of the given pieces
TokenDocs(tokens, n) ==
    {Flatten(ts) : ts \in UNION {[1..k -> tokens] : k \in 0..n}}

LBrace == <<"{">>
RBrace == <<"}">>
Comma == <<",", " ">>
KeyId == <<"\"", "i", "d", "\"", ":", " ">>
StrId == <<"\"", "i", "d", "\"">>
Str42 == <<"\"", "4", "2", "\"">>
Str43 == <<"\"", "4", "3", "\"">>
KeyTail == <<"i", "d", "\"", ":", " ">>
KeyA == <<"\"", "a", "\"", ":", " ">>
KeyB == <<"\"", "b", "\"", ":", " ">>
MemberV == <<"\"", "v", "\"", ":", " ", "1">>
Id42 == KeyId \o Str42
Id43 == KeyId \o Str43
MemberA == KeyA \o LBrace \o RBrace

\* brace-level documents: no strings, so no brace inside a string
ExtractChars == {"{", "}", "x"}

ExtractDocs == UNION {[1..n -> ExtractChars] : n \in 1..MaxLen}

\* documents around the literal "id": "id", which overlaps itself
FindTokens == {KeyId, StrId, Str42, KeyTail, <<"x">>}

FindDocs == TokenDocs(FindTokens, MaxTokens)

FindTargets == {<<"i", "d">>, <<"4", "2">>}

\* {"a": {"id": "42", "v": 1}, "b": {"id": "43"}}
Scenario42 ==
    Flatten(<<LBrace, KeyA, LBrace, Id42, Comma, MemberV, RBrace, Comma,
              KeyB, LBrace, Id43, RBrace, RBrace>>)

\* {"a": {}, "id": "42", "id": "42"}
DupAfterNested ==
    Flatten(<<LBrace, MemberA, Comma, Id42, Comma, Id42, RBrace>>)

\* {"id": "42", "a": {}, "id": "42"}
DupAroundNested ==
    Flatten(<<LBrace, Id42, Comma, MemberA, Comma, Id42, RBrace>>)

\* {"id": "42"}, {"id": "42", "a": {}
ClosedThenUnclosed ==
    Flatten(<<LBrace, Id42, RBrace, Comma, LBrace, Id42, Comma, MemberA>>)

\* {"id": "42"}, {"id": "42"}
TwoObjects ==
    Flatten(<<LBrace, Id42, RBrace, Comma, LBrace, Id42, RBrace>>)

ScenarioDocs ==
    {Scenario42, DupAfterNested, DupAroundNested, ClosedThenUnclosed,
     TwoObjects}

MainTokens == {LBrace, RBrace, Id42, Comma, MemberA}

MainDocs == TokenDocs(MainTokens, MaxTokens) \cup ScenarioDocs

MainTargets == {<<"4", "2">>, <<"4", "3">>}

-----------------------------------------------------------------------------
(* main *)

Pending == [kind |-> "pending", none |-> TRUE, obj |-> <<>>,
            start |-> -1, end |-> -1, index |-> -1]

\* a variant of ResultEntry: last_line taken from start
ResultEntry_LastIsStart(start, end, parsed_obj) ==
    [first_line |-> Str(start), last_line |-> Str(start), data |-> parsed_obj]

\* lines 78-82
ResultEntry(start, end, parsed_obj) ==
    [first_line |-> Str(start), last_line |-> Str(end), data |-> parsed_obj]

\* json.dumps of a list, printed
PrintedArray(items) == [kind |-> "array", items |-> items, message |-> ""]

\* json.dumps({"error": message}), printed
PrintedError(message) == [kind |-> "error", items |-> <<>>, message |-> message]

\* str(e) of the exceptions of the model; the file name is left out of the
\* messages
ErrStr(e) ==
    IF e = "IndexError" THEN "string index out of range" ELSE "os error"

\* lines 52-54: open and read; content is the file's text from here on
OpenRead ==
    /\ pc = "start"
    /\ IF file_state = "ok"
       THEN pc' = "find" /\ exc' = exc
       ELSE /\ pc' = "except"
            /\ exc' = IF file_state = "missing" THEN "FileNotFoundError"
                      ELSE "OSError"
    /\ UNCHANGED <<content, target_id, start_pos, ret, file_state, positions,
                   idx, results, found_objects, stdout>>
    /\ UNCHANGED <<analyzeVars, mappingVars>>

\* lines 57-66
FindPositions ==
    /\ pc = "find"
    /\ positions' = find_all_positions(content, target_id)
    /\ pc' = IF positions' = <<>> THEN "print_empty" ELSE "loop"
    /\ idx' = 0
    /\ results' = <<>>
    /\ found_objects' = {}
    /\ UNCHANGED <<content, target_id, start_pos, ret, file_state, exc, stdout>>
    /\ UNCHANGED <<analyzeVars, mappingVars>>

\* lines 59-62
PrintEmpty ==
    /\ pc = "print_empty"
    /\ stdout' = Append(stdout, PrintedArray(<<>>))
    /\ pc' = "done"
    /\ UNCHANGED <<content, target_id, start_pos, ret, file_state, positions,
                   idx, results, found_objects, exc>>
    /\ UNCHANGED <<analyzeVars, mappingVars>>

\* lines 68-86: one iteration of the for loop.  An IndexError of
\* extract_json_object leaves the loop for the handler of line 93.
LoopIter ==
    /\ pc = "loop"
    /\ idx < Len(positions)
    /\ LET r == extract_json_object(content, positions[idx + 1])
           obj_key == <<r.start, r.end>>
           parsed == json_loads(r.obj)
       IN  IF r.kind = "IndexError"
           THEN /\ exc' = "IndexError"
                /\ pc' = "except"
                /\ UNCHANGED <<idx, results, found_objects>>
           ELSE /\ idx' = idx + 1
                /\ UNCHANGED <<pc, exc>>
                /\ IF ~r.none /\ r.obj # <<>> /\ obj_key \notin found_objects
                   THEN /\ found_objects' = found_objects \cup {obj_key}
                        /\ results' =
                               IF parsed.ok
                               THEN Append(results,
                                        ResultEntry(r.start, r.end, parsed.val))
                               ELSE results
                   ELSE UNCHANGED <<results, found_objects>>
    /\ UNCHANGED <<content, target_id, start_pos, ret, file_state, positions,
                   stdout>>
    /\ UNCHANGED <<analyzeVars, mappingVars>>

\* line 89
PrintResults ==
    /\ pc = "loop"
    /\ idx = Len(positions)
    /\ stdout' = Append(stdout, PrintedArray(results))
    /\ pc' = "done"
    /\ UNCHANGED <<content, target_id, start_pos, ret, file_state, positions,
                   idx, results, found_objects, exc>>
    /\ UNCHANGED <<analyzeVars, mappingVars>>

\* lines 91-92
HandleFileNotFound ==
    /\ pc = "except"
    /\ exc = "FileNotFoundError"
    /\ stdout' = Append(stdout, PrintedError("file not found"))
    /\ pc' = "done"
    /\ UNCHANGED <<content, target_id, start_pos, ret, file_state, positions,
                   idx, results, found_objects, exc>>
    /\ UNCHANGED <<analyzeVars, mappingVars>>

\* lines 93-94
HandleException ==
    /\ pc = "except"
    /\ exc # "FileNotFoundError"
    /\ stdout' = Append(stdout, PrintedError(ErrStr(exc)))
    /\ pc' = "done"
    /\ UNCHANGED <<content, target_id, start_pos, ret, file_state, positions,
                   idx, results, found_objects, exc>>
    /\ UNCHANGED <<analyzeVars, mappingVars>>

Init ==
    /\ file_state \in {"ok", "missing", "unreadable"}
    /\ content \in IF file_state = "ok" THEN MainDocs ELSE {<<>>}
    /\ target_id \in MainTargets
    /\ start_pos = 0
    /\ ret = Pending
    /\ pc = "start"
    /\ positions = <<>>
    /\ idx = 0
    /\ results = <<>>
    /\ found_objects = {}
    /\ exc = ""
    /\ stdout = <<>>
    /\ AnalyzeUnused
    /\ MappingUnused

Next ==
    \/ OpenRead
    \/ FindPositions
    \/ PrintEmpty
    \/ LoopIter
    \/ PrintResults
    \/ HandleFileNotFound
    \/ HandleException

Spec == Init /\ [][Next]_vars

-----------------------------------------------------------------------------
(* One call of extract_json_object on any document and offset *)

ExtractCall ==
    /\ pc = "extract_call"
    /\ ret' = extract_json_object(content, start_pos)
    /\ pc' = "extract_returned"
    /\ UNCHANGED <<content, target_id, start_pos, file_state, positions, idx,
                   results, found_objects, exc, stdout>>
    /\ UNCHANGED <<analyzeVars, mappingVars>>

InitExtract ==
    /\ content \in ExtractDocs
    /\ start_pos \in 0..(Len(content) - 1)
    /\ target_id = <<>>
    /\ ret = Pending
    /\ file_state = "ok"
    /\ pc = "extract_call"
    /\ positions = <<>>
    /\ idx = 0
    /\ results = <<>>
    /\ found_objects = {}
    /\ exc = ""
    /\ stdout = <<>>
    /\ AnalyzeUnused
    /\ MappingUnused

NextExtract == ExtractCall

SpecExtract == InitExtract /\ [][NextExtract]_vars

-----------------------------------------------------------------------------
(* One call of find_all_positions on any document and target *)

FindCall ==
    /\ pc = "find_call"
    /\ positions' = find_all_positions(content, target_id)
    /\ pc' = "find_returned"
    /\ UNCHANGED <<content, target_id, start_pos, ret, file_state, idx,
                   results, found_objects, exc, stdout>>
    /\ UNCHANGED <<analyzeVars, mappingVars>>

InitFind ==
    /\ content \in FindDocs
    /\ target_id \in FindTargets
    /\ start_pos = 0
    /\ ret = Pending
    /\ file_state = "ok"
    /\ pc = "find_call"
    /\ positions = <<>>
    /\ idx = 0
    /\ results = <<>>
    /\ found_objects = {}
    /\ exc = ""
    /\ stdout = <<>>
    /\ AnalyzeUnused
    /\ MappingUnused

NextFind == FindCall

SpecFind == InitFind /\ [][NextFind]_vars

-----------------------------------------------------------------------------
(* analyze_election_results (tools/analyze_candidates_by_precinct.py).     *)
(* candidates and precincts are the lists of lines 15-16; data is the      *)
(* parsed file: a list of entries [name, precinctResults], each precinct   *)
(* result [name, has_vote, voteCount], has_vote FALSE when the key         *)
(* voteCount is absent.  Counts are printed as the integers they are.      *)

Range(f) == {f[k] : k \in DOMAIN f}

SeqsUpTo(S, n) == UNION {[1..k -> S] : k \in 0..n}

CandidateNames == {"A", "B"}

PrecinctNames == {"P", "Q"}

VoteCounts == {1, 2}

PrecinctResults ==
    [name : PrecinctNames, has_vote : {TRUE}, voteCount : VoteCounts]
    \cup [name : PrecinctNames, has_vote : {FALSE}, voteCount : {0}]

CandidateEntries ==
    [name : CandidateNames,
     precinctResults : SeqsUpTo(PrecinctResults, MaxPrecinctResults)]

DataLists == SeqsUpTo(CandidateEntries, MaxEntries)

RequestedCandidates == {<<"A">>, <<"A", "B">>}

RequestedPrecincts == {<<"P">>, <<"P", "Q">>, <<"P", "P">>}

\* lines 37-42: the inner loop over candidate_data['precinctResults'] from
\* its k-th element; row is results[candidate_name], total is
\* candidate_totals[candidate_name], raised the KeyError of line 40
RECURSIVE ProcessPrecinctResults(_, _, _, _, _)
ProcessPrecinctResults(prs, k, wanted, row, total) ==
    IF k > Len(prs) THEN [row |-> row, total |-> total, raised |-> FALSE]
    ELSE IF prs[k].name \notin wanted
    THEN ProcessPrecinctResults(prs, k + 1, wanted, row, total)
    ELSE IF ~prs[k].has_vote
    THEN [row |-> row, total |-> total, raised |-> TRUE]
    ELSE ProcessPrecinctResults(prs, k + 1, wanted,
             [row EXCEPT ![prs[k].name] = prs[k].voteCount],
             total + prs[k].voteCount)

\* lines 51-55: the precinct-wise lines, precinct by precinct
PrecinctLines ==
    [k \in 1..(Len(precincts) * Len(candidates)) |->
        LET precinct == precincts[((k - 1) \div Len(candidates)) + 1]
            candidate == candidates[((k - 1) % Len(candidates)) + 1]
        IN  [precinct |-> precinct, candidate |-> candidate,
             votes |-> results[candidate][precinct]]]

\* lines 60-62: the total lines
TotalLines ==
    [k \in 1..Len(candidates) |->
        [candidate |-> candidates[k],
         total |-> candidate_totals[candidates[k]]]]

\* lines 27-30
AnalyzeLoad ==
    /\ pc = "an_start"
    /\ IF file_state = "ok"
       THEN pc' = "an_loop" /\ exc' = exc
       ELSE /\ pc' = "an_except"
            /\ exc' = IF file_state = "missing" THEN "FileNotFoundError"
                      ELSE "JSONDecodeError"
    /\ UNCHANGED <<content, target_id, start_pos, ret, file_state, positions,
                   idx, results, found_objects, stdout, analyzeVars,
                   mappingVars>>

\* lines 33-42: one iteration of the loop over data
AnalyzeEntry ==
    /\ pc = "an_loop"
    /\ idx < Len(data)
    /\ LET candidate_data == data[idx + 1]
           candidate_name == candidate_data.name
           r == ProcessPrecinctResults(candidate_data.precinctResults, 1,
                    Range(precincts), results[candidate_name],
                    candidate_totals[candidate_name])
       IN  IF candidate_name \in Range(candidates)
           THEN /\ results' = [results EXCEPT ![candidate_name] = r.row]
                /\ candidate_totals' =
                       [candidate_totals EXCEPT ![candidate_name] = r.total]
                /\ IF r.raised
                   THEN pc' = "an_except" /\ exc' = "KeyError" /\ idx' = idx
                   ELSE pc' = pc /\ exc' = exc /\ idx' = idx + 1
           ELSE /\ idx' = idx + 1
                /\ UNCHANGED <<results, candidate_totals, pc, exc>>
    /\ UNCHANGED <<content, target_id, start_pos, ret, file_state, positions,
                   found_objects, stdout, data, candidates, precincts,
                   mappingVars>>

\* lines 45-62
AnalyzePrint ==
    /\ pc = "an_loop"
    /\ idx = Len(data)
    /\ stdout' = Append(stdout, [kind |-> "report",
                                 precinct_lines |-> PrecinctLines,
                                 total_lines |-> TotalLines])
    /\ pc' = "an_done"
    /\ UNCHANGED <<content, target_id, start_pos, ret, file_state, positions,
                   idx, results, found_objects, exc, analyzeVars, mappingVars>>

\* lines 64-69
AnalyzeHandle ==
    /\ pc = "an_except"
    /\ stdout' = Append(stdout, [kind |-> "error", exception |-> exc])
    /\ pc' = "an_done"
    /\ UNCHANGED <<content, target_id, start_pos, ret, file_state, positions,
                   idx, results, found_objects, exc, analyzeVars, mappingVars>>

\* lines 15-25
InitAnalyze ==
    /\ file_state \in {"ok", "missing", "invalid"}
    /\ data \in IF file_state = "ok" THEN DataLists ELSE {<<>>}
    /\ candidates \in RequestedCandidates
    /\ precincts \in RequestedPrecincts
    /\ results = [c \in Range(candidates) |-> [p \in Range(precincts) |-> 0]]
    /\ candidate_totals = [c \in Range(candidates) |-> 0]
    /\ content = <<>>
    /\ target_id = <<>>
    /\ start_pos = 0
    /\ ret = Pending
    /\ pc = "an_start"
    /\ positions = <<>>
    /\ idx = 0
    /\ found_objects = {}
    /\ exc = ""
    /\ stdout = <<>>
    /\ MappingUnused

NextAnalyze ==
    \/ AnalyzeLoad
    \/ AnalyzeEntry
    \/ AnalyzePrint
    \/ AnalyzeHandle

SpecAnalyze == InitAnalyze /\ [][NextAnalyze]_vars

-----------------------------------------------------------------------------
(* Parsed JSON as create_district_mapping and create_precinct_mapping walk *)
(* it: [t |-> tag, v |-> ...] with tag "dict" (v: <<key, value>> pairs in  *)
(* order, keys being TLA+ strings), "list" (v: the items), "str" (v: the   *)
(* characters), "num" (v: <<n>>), "bool" (v: <<b>>), "null" (v: <<>>).     *)

JDict(pairs) == [t |-> "dict", v |-> pairs]

JList(items) == [t |-> "list", v |-> items]

JStr(chars) == [t |-> "str", v |-> chars]

JNum(n) == [t |-> "num", v |-> <<n>>]

JBool(b) == [t |-> "bool", v |-> <<b>>]

JNull == [t |-> "null", v |-> <<>>]

\* bool(value)
Truthy(value) ==
    IF value.t \in {"dict", "list", "str"} THEN value.v # <<>>
    ELSE IF value.t = "num" THEN value.v[1] # 0
    ELSE IF value.t = "bool" THEN value.v[1]
    ELSE FALSE

\* key in items, for a dict
HasKey(items, key) == \E k \in 1..Len(items.v) : items.v[k][1] = key

\* items.get(key, default), for a dict
GetKey(items, key, default) ==
    IF HasKey(items, key)
    THEN items.v[CHOOSE k \in 1..Len(items.v) : items.v[k][1] = key][2]
    ELSE default

\* items.values(), for a dict
DictValues(items) == [k \in 1..Len(items.v) |-> items.v[k][2]]

\* hash(value) does not raise TypeError
Hashable(value) == value.t \notin {"dict", "list"}

HouseMarker ==
    <<"S", "t", "a", "t", "e", " ", "H", "o", "u", "s", "e", " ", "o", "f", " ", "R", "e", "p", "r", "e", "s", "e", "n", "t", "a", "t", "i", "v", "e", "s", " ", "-", " ", "D", "i", "s", "t", "r", "i", "c", "t">>

DistrictWord == <<"D", "i", "s", "t", "r", "i", "c", "t", " ">>

NoDistrict == [raised |-> FALSE, found |-> FALSE, num |-> <<>>]

DistrictRaised == [raised |-> TRUE, found |-> FALSE, num |-> <<>>]

\* re.search(r'District (\d+)', name).group(1) for a str: the digits after
\* the leftmost "District " that a digit follows
DistrictSearch(chars) ==
    LET hits == {i \in 0..(Len(chars) - 1) :
                    /\ OccursAt(chars, DistrictWord, i)
                    /\ i + Len(DistrictWord) < Len(chars)
                    /\ IsDigit(At(chars, i + Len(DistrictWord)))}
        first == CHOOSE i \in hits : \A j \in hits : i <= j
        from == first + Len(DistrictWord)
    IN  IF hits = {} THEN NoDistrict
        ELSE [raised |-> FALSE, found |-> TRUE,
              num |-> Slice(chars, from, SkipDigits(chars, from))]

\* create_district_mapping.py lines 47-51.  `not in` is a substring test
\* on a str, a membership test on a list or the keys of a dict, and raises
\* TypeError on anything else; re.search raises TypeError on a non-str.
extract_district_number(name) ==
    IF name.t = "str"
    THEN IF Find(name.v, HouseMarker, 0) = -1 THEN NoDistrict
         ELSE DistrictSearch(name.v)
    ELSE IF name.t = "list"
    THEN IF \E k \in 1..Len(name.v) : name.v[k] = JStr(HouseMarker)
         THEN DistrictRaised ELSE NoDistrict
    ELSE IF name.t = "dict" THEN NoDistrict
    ELSE DistrictRaised

\* create_precinct_mapping.py lines 48-52
precinct_extract_district_number(name) ==
    IF ~Truthy(name) THEN NoDistrict ELSE extract_district_number(name)

\* f"District {district_num}"
DistrictLabel(num) == JStr(DistrictWord \o num)

\* an update of a Python dict given as <<key, value>> pairs
PairsSet(pairs, key, value) ==
    IF \E k \in 1..Len(pairs) : pairs[k][1] = key
    THEN [k \in 1..Len(pairs) |->
             IF pairs[k][1] = key THEN <<key, value>> ELSE pairs[k]]
    ELSE Append(pairs, <<key, value>>)

RECURSIVE district_process_items(_, _)
RECURSIVE DistrictProcessEach(_, _, _)

\* create_district_mapping.py lines 54-64; st is [map, raised]: district_map
\* so far, and whether an exception is in flight
district_process_items(items, st) ==
    IF st.raised THEN st
    ELSE IF items.t = "dict"
    THEN LET found == extract_district_number(GetKey(items, "name", JNull))
             id == GetKey(items, "id", JNull)
             st1 == IF HasKey(items, "id") /\ HasKey(items, "name")
                    THEN IF found.raised THEN [st EXCEPT !.raised = TRUE]
                         ELSE IF ~found.found THEN st
                         ELSE IF ~Hashable(id) THEN [st EXCEPT !.raised = TRUE]
                         ELSE [st EXCEPT !.map =
                                  PairsSet(st.map, id, DistrictLabel(found.num))]
                    ELSE st
         IN  DistrictProcessEach(DictValues(items), 1, st1)
    ELSE IF items.t = "list" THEN DistrictProcessEach(items.v, 1, st)
    ELSE st

\* lines 60-61 and 63-64: the loops over the values or the items
DistrictProcessEach(values, k, st) ==
    IF k > Len(values) \/ st.raised THEN st
    ELSE DistrictProcessEach(values, k + 1,
                             district_process_items(values[k], st))

\* the place of a decimal digit character in the order of str
DigitRank(c) == CHOOSE d \in 0..9 : Digit(d) = c

RECURSIVE StrLess(_, _)

\* a < b for two str of decimal digits, as group(1) of (\d+) is
StrLess(a, b) ==
    IF b = <<>> THEN FALSE
    ELSE IF a = <<>> THEN TRUE
    ELSE IF Head(a) = Head(b) THEN StrLess(Tail(a), Tail(b))
    ELSE DigitRank(Head(a)) < DigitRank(Head(b))

RECURSIVE SortedList(_)

\* sorted(list(districts)) for a set of str
SortedList(districts) ==
    IF districts = {} THEN <<>>
    ELSE LET least == CHOOSE d \in districts :
                          \A e \in districts \ {d} : StrLess(d, e)
         IN  <<least>> \o SortedList(districts \ {least})

\* precinct_map[precinct_name].add(district_num) on the defaultdict(set)
PrecinctAdd(pairs, precinct_name, district_num) ==
    IF \E k \in 1..Len(pairs) : pairs[k][1] = precinct_name
    THEN [k \in 1..Len(pairs) |->
             IF pairs[k][1] = precinct_name
             THEN <<precinct_name, pairs[k][2] \cup {district_num}>>
             ELSE pairs[k]]
    ELSE Append(pairs, <<precinct_name, {district_num}>>)

RECURSIVE PrecinctLoop(_, _, _, _)

\* create_precinct_mapping.py lines 66-75, over the items a for loop draws
\* from precinct_results
PrecinctLoop(precinct_results, k, district_num, st) ==
    IF k > Len(precinct_results) \/ st.raised THEN st
    ELSE LET precinct == precinct_results[k]
             precinct_name == GetKey(precinct, "name", JNull)
             is_virtual == GetKey(precinct, "isVirtual", JBool(FALSE))
             st1 == IF precinct.t # "dict" THEN st
                    ELSE IF ~(Truthy(precinct_name) /\ ~Truthy(is_virtual))
                    THEN st
                    ELSE IF ~Hashable(precinct_name)
                    THEN [st EXCEPT !.raised = TRUE]
                    ELSE [st EXCEPT !.map =
                             PrecinctAdd(st.map, precinct_name, district_num)]
         IN  PrecinctLoop(precinct_results, k + 1, district_num, st1)

\* what `for x in value` draws: the items of a list, the keys of a dict,
\* the characters of a str (none of them a dict, so each is skipped)
Iterated(value) ==
    IF value.t = "list" THEN value.v
    ELSE IF value.t = "dict" THEN [k \in 1..Len(value.v) |-> JNull]
    ELSE [k \in 1..Len(value.v) |-> JStr(<<value.v[k]>>)]

RECURSIVE OptionLoop(_, _, _, _)

\* create_precinct_mapping.py lines 59-75: the loop over ballot_options
OptionLoop(ballot_options, k, district_num, st) ==
    IF k > Len(ballot_options) \/ st.raised THEN st
    ELSE LET option == ballot_options[k]
             precinct_results == GetKey(option, "precinctResults", JList(<<>>))
             st1 == IF option.t # "dict" THEN st
                    ELSE IF ~Truthy(precinct_results) THEN st
                    ELSE IF precinct_results.t \in {"num", "bool"}
                    THEN [st EXCEPT !.raised = TRUE]
                    ELSE PrecinctLoop(Iterated(precinct_results), 1,
                                      district_num, st)
         IN  OptionLoop(ballot_options, k + 1, district_num, st1)

\* create_precinct_mapping.py lines 54-75
process_ballot_options(ballot_options, district_num, st) ==
    IF ~Truthy(ballot_options) \/ ballot_options.t # "list" THEN st
    ELSE OptionLoop(ballot_options.v, 1, district_num, st)

RECURSIVE precinct_process_items(_, _)
RECURSIVE PrecinctProcessEach(_, _, _)

\* create_precinct_mapping.py lines 77-94
precinct_process_items(items, st) ==
    IF st.raised \/ ~Truthy(items) THEN st
    ELSE IF items.t = "dict"
    THEN LET name == GetKey(items, "name", JStr(<<>>))
             ballot_options == GetKey(items, "ballotOptions", JNull)
             found == precinct_extract_district_number(name)
             st1 == IF ~(Truthy(name) /\ Truthy(ballot_options)) THEN st
                    ELSE IF found.raised THEN [st EXCEPT !.raised = TRUE]
                    ELSE IF ~found.found THEN st
                    ELSE process_ballot_options(ballot_options, found.num, st)
         IN  PrecinctProcessEach(DictValues(items), 1, st1)
    ELSE IF items.t = "list" THEN PrecinctProcessEach(items.v, 1, st)
    ELSE st

\* lines 90-91 and 93-94: the loops over the values or the items
PrecinctProcessEach(values, k, st) ==
    IF k > Len(values) \/ st.raised THEN st
    ELSE PrecinctProcessEach(values, k + 1,
                             precinct_process_items(values[k], st))

\* lines 100-101: {precinct: sorted(list(districts))}
FinalMap(pairs) ==
    [k \in 1..Len(pairs) |-> <<pairs[k][1], SortedList(pairs[k][2])>>]

NoMapping == [map |-> <<>>, raised |-> FALSE]

\* the body of the try statement after json.load, for either function:
\* [map, raised] with the mapping built, or raised when an exception left it
ComputeMapping(fn, value) ==
    IF fn = "district" THEN district_process_items(value, NoMapping)
    ELSE LET st == precinct_process_items(value, NoMapping)
         IN  IF st.raised THEN st ELSE [st EXCEPT !.map = FinalMap(st.map)]

-----------------------------------------------------------------------------
(* create_district_mapping (create_district_mapping.py lines 8-81) and     *)
(* create_precinct_mapping (create_precinct_mapping.py lines 9-120), each  *)
(* invocation in steps, over a file system the environment modifies        *)
(* between invocations and one disk cache that outlives them.              *)

MaxClock == 2

\* the contest name of a state house district
HouseName(num) == JStr(HouseMarker \o <<" ">> \o num)

PrecinctP == JDict(<< <<"name", JStr(<<"P">>)>> >>)

VirtualQ == JDict(<< <<"name", JStr(<<"Q">>)>>, <<"isVirtual", JBool(TRUE)>> >>)

Contest(id, name, precinct_results) ==
    JDict(<< <<"id", JStr(id)>>, <<"name", name>>,
             <<"ballotOptions",
               JList(<<JDict(<< <<"precinctResults",
                                  JList(precinct_results)>> >>)>>)>> >>)

\* two house contests that share a precinct, one with a virtual precinct
TwoContests ==
    JList(<<Contest(<<"7">>, HouseName(<<"1", "2">>), <<PrecinctP, VirtualQ>>),
            Contest(<<"8">>, HouseName(<<"3">>), <<PrecinctP>>)>>)

\* a contest that is no house district: the mapping is empty
OtherContest == Contest(<<"9">>, JStr(<<"G">>), <<PrecinctP>>)

\* a name that is a number: the substring test raises TypeError
BadName == Contest(<<"9">>, JNum(5), <<PrecinctP>>)

NoText == [valid |-> FALSE, value |-> JNull]

\* what a file can hold: text json.load parses to a value, or text it rejects
FileTexts ==
    {[valid |-> TRUE, value |-> d] :
        d \in {TwoContests, OtherContest, BadName}} \cup {NoText}

PathA == <<"/", "a">>

\* a second file whose path ends like a cache key of the first
PathB == PathA \o <<"_", "1", ".", "0">>

Paths == {PathA, PathB}

MapFns == {"district", "precinct"}

NoFile == [exists |-> FALSE, st_mtime |-> 0, text |-> NoText]

\* str(st_mtime) of a float holding whole seconds
FloatStr(mtime) == Str(mtime) \o <<".", "0">>

KeyPrefix(fn) ==
    IF fn = "precinct" THEN <<"p", "r", "e", "c", "i", "n", "c", "t", "_", "m", "a", "p", "_">>
    ELSE <<>>

\* the model's variant of the key that leaves the modification time out
CacheKey_NoMtime(fn, path, mtime) == KeyPrefix(fn) \o path

\* create_district_mapping.py line 28, create_precinct_mapping.py line 29
CacheKey(fn, path, mtime) == KeyPrefix(fn) \o path \o <<"_">> \o FloatStr(mtime)

\* cache.set(key, value), the store being <<key, value>> pairs
CacheSet(store, key, value) == PairsSet(store, key, value)

\* the keys the store holds
CacheKeys(store) == {store[k][1] : k \in 1..Len(store)}

\* cache.get(key) for a key the store holds
CacheGet(store, key) ==
    store[CHOOSE k \in 1..Len(store) : store[k][1] = key][2]

\* the variables of the other programs, which these steps leave alone
extractVars == <<content, target_id, start_pos, ret, file_state, positions,
                 idx, results, found_objects, exc>>

\* the environment writes a file between two invocations; the clock gives
\* the file a modification time no file had before
WriteFile(path, text) ==
    /\ pc = "map_idle"
    /\ clock < MaxClock
    /\ clock' = clock + 1
    /\ fs' = [fs EXCEPT ![path] =
                 [exists |-> TRUE, st_mtime |-> clock + 1, text |-> text]]
    /\ UNCHANGED <<extractVars, pc, stdout, analyzeVars, cache_store, cache_open, map_fn,
                   json_file_path, cache_key, mapping, exit_path>>

\* the environment removes a file between two invocations
DeleteFile(path) ==
    /\ pc = "map_idle"
    /\ fs[path].exists
    /\ fs' = [fs EXCEPT ![path] = NoFile]
    /\ UNCHANGED <<extractVars, pc, stdout, analyzeVars, clock, cache_store, cache_open, map_fn,
                   json_file_path, cache_key, mapping, exit_path>>

\* lines 20-22 (district), 21-23 (precinct): the cache is opened and the
\* path taken up
MapCall(fn, path) ==
    /\ pc = "map_idle"
    /\ pc' = "map_opened"
    /\ map_fn' = fn
    /\ json_file_path' = path
    /\ cache_open' = TRUE
    /\ cache_key' = <<>>
    /\ mapping' = <<>>
    /\ exit_path' = ""
    /\ stdout' = <<>>
    /\ UNCHANGED <<extractVars, analyzeVars, fs, clock, cache_store>>

\* lines 23-26 (district), 24-27 (precinct): the file does not exist
MapFileMissing ==
    /\ pc = "map_opened"
    /\ ~fs[json_file_path].exists
    /\ stdout' = <<"not found">>
    /\ mapping' = <<>>
    /\ exit_path' = "not_found"
    /\ pc' = "map_idle"
    /\ UNCHANGED <<extractVars, analyzeVars, fs, clock, cache_store,
                   cache_open, map_fn, json_file_path, cache_key>>

\* lines 28-36 (district), 29-37 (precinct): the key, and the cached
\* mapping returned when cache.get finds one
MapLookup ==
    /\ pc = "map_opened"
    /\ fs[json_file_path].exists
    /\ LET key == CacheKey(map_fn, json_file_path,
                           fs[json_file_path].st_mtime)
       IN  /\ cache_key' = key
           /\ IF key \in CacheKeys(cache_store)
              THEN /\ stdout' = <<"using cached">>
                   /\ mapping' = CacheGet(cache_store, key)
                   /\ exit_path' = "hit"
                   /\ pc' = "map_idle"
              ELSE /\ stdout' = <<"processing">>
                   /\ pc' = "map_compute"
                   /\ UNCHANGED <<mapping, exit_path>>
    /\ UNCHANGED <<extractVars, analyzeVars, fs, clock, cache_store,
                   cache_open, map_fn, json_file_path>>

\* lines 41-81 (district), 42-120 (precinct): the try statement with its
\* except clauses and its finally
MapCompute ==
    /\ pc = "map_compute"
    /\ LET text == fs[json_file_path].text
           st == ComputeMapping(map_fn, text.value)
       IN  IF ~text.valid
           THEN /\ stdout' = <<"invalid json">>
                /\ mapping' = <<>>
                /\ exit_path' = "invalid_json"
                /\ UNCHANGED cache_store
           ELSE IF st.raised
           THEN /\ stdout' = <<"error">>
                /\ mapping' = <<>>
                /\ exit_path' = "exception"
                /\ UNCHANGED cache_store
           ELSE /\ stdout' = <<"created">>
                /\ cache_store' = CacheSet(cache_store, cache_key, st.map)
                /\ mapping' = st.map
                /\ exit_path' = "computed"
    /\ cache_open' = FALSE
    /\ pc' = "map_idle"
    /\ UNCHANGED <<extractVars, analyzeVars, fs, clock, map_fn,
                   json_file_path, cache_key>>

InitMapping ==
    /\ content = <<>>
    /\ target_id = <<>>
    /\ start_pos = 0
    /\ ret = Pending
    /\ file_state = "closed"
    /\ positions = <<>>
    /\ idx = 0
    /\ results = <<>>
    /\ found_objects = {}
    /\ exc = ""
    /\ stdout = <<>>
    /\ AnalyzeUnused
    /\ pc = "map_idle"
    /\ fs = [path \in Paths |-> NoFile]
    /\ clock = 0
    /\ cache_store = <<>>
    /\ cache_open = FALSE
    /\ map_fn = ""
    /\ json_file_path = <<>>
    /\ cache_key = <<>>
    /\ mapping = <<>>
    /\ exit_path = ""

NextMapping ==
    \/ \E path \in Paths, text \in FileTexts : WriteFile(path, text)
    \/ \E path \in Paths : DeleteFile(path)
    \/ \E fn \in MapFns, path \in Paths : MapCall(fn, path)
    \/ MapFileMissing
    \/ MapLookup
    \/ MapCompute

SpecMapping == InitMapping /\ [][NextMapping]_vars

-----------------------------------------------------------------------------
(* What the properties are stated with: brace blocks and occurrences of    *)
(* the literal, defined on the document alone                              *)

BraceDelta(c) == IF c = "{" THEN 1 ELSE IF c = "}" THEN -1 ELSE 0

\* opening minus closing braces among the offsets a..b
RECURSIVE Balance(_, _, _)
Balance(doc, a, b) ==
    IF a > b THEN 0 ELSE Balance(doc, a, b - 1) + BraceDelta(At(doc, b))

\* doc[s..e] is a balanced block: e is the brace matching the one at s
IsBlock(doc, s, e) ==
    /\ s < e
    /\ At(doc, s) = "{"
    /\ At(doc, e) = "}"
    /\ Balance(doc, s, e) = 0
    /\ \A k \in s..(e - 1) : Balance(doc, s, k) > 0

\* offset p lies inside the block s..e
Encloses(doc, s, e, p) == IsBlock(doc, s, e) /\ s <= p /\ p < e

\* s..e is the innermost balanced block enclosing p
InnermostBlock(doc, p, s, e) ==
    /\ Encloses(doc, s, e, p)
    /\ \A s2, e2 \in 0..(Len(doc) - 1) : Encloses(doc, s2, e2, p) => s2 <= s

\* a forward scan from p at depth 1 never comes back to depth 0
Unclosed(doc, p) ==
    \A e \in (p + 1)..(Len(doc) - 1) : 1 + Balance(doc, p + 1, e) > 0

Offsets(doc) == 0..(Len(doc) - 1)

\* the literal "id": "<id>"
IdLiteral(id) == Flatten(<<KeyId, <<"\"">>, id, <<"\"">>>>)

\* the offsets at which the literal of id occurs in doc
Occurrences(doc, id) ==
    {i \in Offsets(doc) :
        /\ i + Len(IdLiteral(id)) <= Len(doc)
        /\ SubSeq(doc, i + 1, i + Len(IdLiteral(id))) = IdLiteral(id)}

\* the text doc[s..e]
Text(doc, s, e) == SubSeq(doc, s + 1, e + 1)

-----------------------------------------------------------------------------
(* Properties of extract_json_object, under SpecExtract *)

\* C1: for every offset inside a balanced block of a document without
\* strings, the call returns the innermost balanced block enclosing the
\* offset: its text and the offsets of its two braces.  Stated for the
\* offsets that are not themselves a closing brace.
C1_InnermostBlock ==
    pc = "extract_returned" /\ At(content, start_pos) # "}" =>
        \A s, e \in Offsets(content) :
            InnermostBlock(content, start_pos, s, e) =>
                ret = [kind |-> "return", none |-> FALSE,
                       obj |-> Text(content, s, e),
                       start |-> s, end |-> e, index |-> -1]

\* C2: for an offset inside an object (an opening brace at or before it)
\* whose forward scan reaches the end of the document without the depth
\* reaching 0, the call returns (None, -1, -1) as a normal result.
C2_UnclosedReturnsNotFound ==
    pc = "extract_returned"
    /\ (\E s \in 0..start_pos : At(content, s) = "{")
    /\ Unclosed(content, start_pos)
        => ret = NotFound

\* C3: for every document and every offset 0 <= p < len(D) the call ends
\* with a returned value; no read of the document is out of range.
C3_NoOutOfRangeRead ==
    pc = "extract_returned" => ret.kind = "return" /\ ret.index = -1

\* C4: when there is no opening brace at or before the offset, the call
\* returns (None, -1, -1) whatever the forward scan finds; stated for the
\* documents in which the forward scan does find depth 0.
C4_NoOpeningBraceReturnsNotFound ==
    pc = "extract_returned"
    /\ (\A i \in 0..start_pos : At(content, i) # "{")
    /\ ~Unclosed(content, start_pos)
        => ret = NotFound

\* C11: whenever the call returns a result other than (None, -1, -1) for
\* offset p, 0 <= start <= p < end < len(D), D[start] is "{", D[end] is "}"
\* and the text is D[start..end].
C11_SuccessfulResultShape ==
    pc = "extract_returned" /\ ret.kind = "return" /\ ret # NotFound =>
        /\ 0 <= ret.start
        /\ ret.start <= start_pos
        /\ start_pos < ret.end
        /\ ret.end < Len(content)
        /\ At(content, ret.start) = "{"
        /\ At(content, ret.end) = "}"
        /\ ~ret.none
        /\ ret.obj = Text(content, ret.start, ret.end)

-----------------------------------------------------------------------------
(* Properties of find_all_positions, under SpecFind *)

\* C7: the call ends, and returns exactly the offsets at which the literal
\* "id": "<id>" occurs in the document, each once, in strictly ascending
\* order (the empty sequence when there is none).
C7_AllOccurrencesAscending ==
    pc = "find_returned" =>
        /\ \A a, b \in 1..Len(positions) : a < b => positions[a] < positions[b]
        /\ {positions[k] : k \in 1..Len(positions)}
               = Occurrences(content, target_id)

C7_Witness ==
    /\ pc = "find_returned"
    /\ Len(positions) >= 2
    /\ Occurrences(content, target_id) # {}

\* C8 as claimed: any two returned offsets differ by at least the length of
\* the literal.
C8_NonOverlapping ==
    pc = "find_returned" =>
        \A a, b \in 1..Len(positions) :
            a < b => positions[b] - positions[a] >= Len(IdLiteral(target_id))

\* C8 as amended: the search resumes one character after each match, so
\* occurrences that overlap are all returned.  Any two returned offsets
\* differ by at least 1; two of them closer than the literal's length are
\* both occurrences, the literal overlapping itself at that distance (its
\* tail from there equals its head); and of two occurrences that overlap
\* neither is left out.
C8_OverlappingReturned ==
    pc = "find_returned" =>
        LET lit == IdLiteral(target_id)
            n == Len(lit)
        IN  /\ \A a, b \in 1..Len(positions) :
                   a < b =>
                       LET d == positions[b] - positions[a]
                       IN  /\ d >= 1
                           /\ d < n => SubSeq(lit, d + 1, n) = SubSeq(lit, 1, n - d)
            /\ \A i, j \in Occurrences(content, target_id) :
                   i < j /\ j - i < n =>
                       /\ \E k \in 1..Len(positions) : positions[k] = i
                       /\ \E k \in 1..Len(positions) : positions[k] = j

C8_Witness ==
    /\ pc = "find_returned"
    /\ \E a, b \in 1..Len(positions) :
           /\ a < b
           /\ positions[b] - positions[a] < Len(IdLiteral(target_id))

-----------------------------------------------------------------------------
(* Properties of main, under Spec *)

\* the array main printed, when it printed one
Printed == stdout[1]

\* the element main is to emit for the block s..e
ElementOf(doc, s, e) ==
    [first_line |-> Str(s), last_line |-> Str(e),
     data |-> json_loads(Text(doc, s, e)).val]

\* C5: a match whose enclosing object is balanced and parses contributes
\* its element to the printed array whatever happens to the other matches
\* (an extraction that fails, a text that does not parse, are skipped);
\* stated for the matches with no brace between the opening brace of their
\* object and themselves.
C5_FailuresSkipped ==
    pc = "done" /\ file_state = "ok" =>
        \A p \in Occurrences(content, target_id) :
            \A s, e \in Offsets(content) :
                /\ InnermostBlock(content, p, s, e)
                /\ \A k \in (s + 1)..p : BraceDelta(At(content, k)) = 0
                /\ json_loads(Text(content, s, e)).ok
                => /\ Len(stdout) = 1
                   /\ Printed.kind = "array"
                   /\ \E k \in 1..Len(Printed.items) :
                          Printed.items[k] = ElementOf(content, s, e)

\* C6: a printed array never holds two elements with the same (start, end),
\* and an object that holds the literal two or more times is in it exactly
\* once.
C6_Deduplicated ==
    pc = "done" /\ Len(stdout) = 1 /\ Printed.kind = "array" =>
        /\ \A a, b \in 1..Len(Printed.items) :
               a # b =>
                   <<Printed.items[a].first_line, Printed.items[a].last_line>>
                       # <<Printed.items[b].first_line, Printed.items[b].last_line>>
        /\ \A p1, p2 \in Occurrences(content, target_id) :
               \A s, e \in Offsets(content) :
                   /\ p1 < p2
                   /\ InnermostBlock(content, p1, s, e)
                   /\ InnermostBlock(content, p2, s, e)
                   /\ json_loads(Text(content, s, e)).ok
                   => Cardinality({k \in 1..Len(Printed.items) :
                          /\ Printed.items[k].first_line = Str(s)
                          /\ Printed.items[k].last_line = Str(e)}) = 1

\* C9: a run prints exactly one value: an array when the document was read
\* (the empty one when the literal has no match), an error object when the
\* file is missing or cannot be read, and nothing before it.
C9_OneValueKindsNotMixed ==
    /\ Len(stdout) <= 1
    /\ pc # "done" => stdout = <<>>
    /\ pc = "done" =>
           /\ Len(stdout) = 1
           /\ file_state = "ok" => Printed.kind = "array"
           /\ file_state = "ok" /\ Occurrences(content, target_id) = {}
                  => Printed = PrintedArray(<<>>)
           /\ file_state # "ok" => Printed.kind = "error"

\* C10: every element main collects and prints is {first_line, last_line,
\* data} for a block s..e of the document that holds a match: the two
\* offsets in decimal and the parse of D[s..e]; the printed array is the
\* collected elements; and on the document
\* {"a": {"id": "42", "v": 1}, "b": {"id": "43"}} with id 42 it is the one
\* element for offsets 6..25.
C10_ElementForm ==
    /\ \A k \in 1..Len(results) :
           \E s, e \in Offsets(content) :
               /\ s < e
               /\ At(content, s) = "{"
               /\ At(content, e) = "}"
               /\ \E p \in Occurrences(content, target_id) : s <= p /\ p < e
               /\ json_loads(Text(content, s, e)).ok
               /\ results[k] = ElementOf(content, s, e)
    /\ pc = "done" /\ exc = "" => stdout = <<PrintedArray(results)>>
    /\ pc = "done" /\ content = Scenario42 /\ target_id = <<"4", "2">> =>
           stdout = <<PrintedArray(<<
               [first_line |-> <<"6">>,
                last_line |-> <<"2", "5">>,
                data |-> [t |-> "obj", v |-> <<
                    <<<<"i", "d">>, [t |-> "str", v |-> <<"4", "2">>]>>,
                    <<<<"v">>, [t |-> "num", v |-> <<"1">>]>> >>]] >>)>>

C10_Witness ==
    /\ pc = "done"
    /\ content = Scenario42
    /\ target_id = <<"4", "2">>
    /\ Len(stdout) = 1
    /\ Len(Printed.items) = 1

\* the number a decimal string denotes
RECURSIVE DecimalValue(_)
DecimalValue(digits) ==
    IF digits = <<>> THEN 0
    ELSE 10 * DecimalValue(SubSeq(digits, 1, Len(digits) - 1))
         + (CHOOSE d \in 0..9 : Digit(d) = digits[Len(digits)])

\* the scan from match offset p reaches the span that element el is tagged
\* with: the nearest "{" at or before p, the first return to depth 0 after p
Reaches(doc, p, el) ==
    \E s \in 0..p, e \in (p + 1)..(Len(doc) - 1) :
        /\ At(doc, s) = "{"
        /\ \A k \in (s + 1)..p : At(doc, k) # "{"
        /\ 1 + Balance(doc, p + 1, e) = 0
        /\ \A k \in (p + 1)..(e - 1) : 1 + Balance(doc, p + 1, k) > 0
        /\ el.first_line = Str(s)
        /\ el.last_line = Str(e)

\* the matches, in the order of positions, that reach element el
ReachedFrom(el) ==
    {i \in 1..Len(positions) : Reaches(content, positions[i], el)}

FirstReach(el) ==
    CHOOSE i \in ReachedFrom(el) : \A j \in ReachedFrom(el) : i <= j

\* C15: the elements of the array are in the order in which their objects
\* were first reached from the ascending match offsets, and their start
\* offsets (first_line) never decrease along the array.
C15_OrderedByFirstReach ==
    /\ \A a \in 1..Len(results) : ReachedFrom(results[a]) # {}
    /\ \A a, b \in 1..Len(results) :
           a < b =>
               /\ FirstReach(results[a]) < FirstReach(results[b])
               /\ DecimalValue(results[a].first_line)
                      <= DecimalValue(results[b].first_line)
    /\ pc = "done" /\ exc = "" => Len(stdout) = 1 /\ Printed.items = results

C15_Witness ==
    /\ pc = "done"
    /\ Len(stdout) = 1
    /\ Printed.kind = "array"
    /\ Len(Printed.items) >= 2
    /\ DecimalValue(Printed.items[1].first_line)
           < DecimalValue(Printed.items[2].first_line)

-----------------------------------------------------------------------------
(* Properties of analyze_election_results, under SpecAnalyze *)

RECURSIVE SumOver(_, _)
SumOver(S, f) ==
    IF S = {} THEN 0
    ELSE LET x == CHOOSE y \in S : TRUE
         IN  f[x] + SumOver(S \ {x}, f)

\* the report printed once the whole data list has been processed
Report == stdout[1]

\* the votes the report gives for a candidate in a precinct
ReportedVotes(candidate, precinct) ==
    LET k == CHOOSE j \in 1..Len(Report.precinct_lines) :
                 /\ Report.precinct_lines[j].candidate = candidate
                 /\ Report.precinct_lines[j].precinct = precinct
    IN  Report.precinct_lines[k].votes

\* C14: once the whole data list has been processed, each candidate's
\* reported total is the sum, over the distinct requested precincts, of the
\* per-precinct counts reported for that candidate.
C14_TotalIsSumOfReported ==
    pc = "an_done" /\ exc = "" =>
        \A k \in 1..Len(Report.total_lines) :
            Report.total_lines[k].total =
                SumOver(Range(precincts),
                        [p \in Range(precincts) |->
                            ReportedVotes(Report.total_lines[k].candidate, p)])

-----------------------------------------------------------------------------
(* Properties of create_district_mapping and create_precinct_mapping,      *)
(* under SpecMapping *)

\* an invocation has returned and no other has begun
Returned == pc = "map_idle" /\ exit_path # ""

\* C12: when an invocation of either mapping function has returned, by
\* whichever exit path (file not found, cache hit, successful computation,
\* error), the disk cache it opened at its start is closed.
C12_CacheClosedOnEveryExit == Returned => ~cache_open

\* what the function computes from a file without any cache: the empty
\* mapping for a missing file, for text that is no JSON and for a
\* traversal that raises, the mapping built otherwise
Uncached(fn, file) ==
    IF ~file.exists \/ ~file.text.valid THEN <<>>
    ELSE LET st == ComputeMapping(fn, file.text.value)
         IN  IF st.raised THEN <<>> ELSE st.map

\* the computation from the file succeeds
Succeeds(fn, file) ==
    /\ file.exists
    /\ file.text.valid
    /\ ~ComputeMapping(fn, file.text.value).raised

\* (function, absolute path, modification time) triples
KeyTriples == MapFns \X Paths \X (0..MaxClock)

\* two different triples never share a key
KeysDistinct ==
    \A a, b \in KeyTriples :
        CacheKey(a[1], a[2], a[3]) = CacheKey(b[1], b[2], b[3]) => a = b

\* the step in which the running invocation returns
Returns == pc # "map_idle" /\ pc' = "map_idle"

\* the key of the file the running invocation was called on
CurrentKey ==
    CacheKey(map_fn, json_file_path, fs[json_file_path].st_mtime)

ReturnStep ==
    LET file == fs[json_file_path]
    IN  /\ mapping' = Uncached(map_fn, file)
        /\ exit_path' = "hit" =>
               /\ file.exists
               /\ CurrentKey \in CacheKeys(cache_store)
               /\ mapping' = CacheGet(cache_store, CurrentKey)
               /\ cache_store' = cache_store
        /\ exit_path' = "computed" =>
               /\ Succeeds(map_fn, file)
               /\ CurrentKey \notin CacheKeys(cache_store)
               /\ cache_store' =
                      Append(cache_store, <<CurrentKey, Uncached(map_fn, file)>>)
        /\ exit_path' \in {"not_found", "invalid_json", "exception"} =>
               /\ ~Succeeds(map_fn, file)
               /\ mapping' = <<>>
               /\ cache_store' = cache_store
        /\ exit_path' = "not_found" <=> ~file.exists
        /\ exit_path' = "invalid_json" =>
               ~file.text.valid /\ CurrentKey \notin CacheKeys(cache_store)

\* C13: over invocations of either function interleaved with writes and
\* removals of the files, each write giving the file a new modification
\* time, every invocation returns the mapping an uncached computation on
\* the file as it is would return; the cache changes only when an
\* invocation returns from a successful computation, by one entry under the
\* key of (function, path, modification time) of the file computed from; a
\* hit returns the entry stored under exactly that key, different triples
\* having different keys; a failing invocation returns the empty mapping
\* and leaves the cache as it was.
C13_CachedEqualsUncached ==
    [][/\ Returns => ReturnStep /\ KeysDistinct
       /\ cache_store' # cache_store =>
              Returns /\ exit_path' = "computed"]_vars

\* a file was computed and cached, then modified to hold another mapping,
\* computed again, and the invocation that just returned took the new
\* entry from the cache while the old entry is still stored
C13_Witness ==
    /\ Returned
    /\ exit_path = "hit"
    /\ mapping # <<>>
    /\ \E m \in 0..MaxClock :
           LET old == CacheKey(map_fn, json_file_path, m)
           IN  /\ m < fs[json_file_path].st_mtime
               /\ old \in CacheKeys(cache_store)
               /\ CacheGet(cache_store, old) # mapping

=============================================================================
